---------------------------- MODULE Spec2Model ----------------------------
(***************************************************************************)
(* Model of Traegerbemessungstool.py: the three beam-mechanics functions   *)
(* and the top-level design search that Streamlit re-executes on every     *)
(* input change.                                                           *)
(*                                                                         *)
(* The script computes in float64.  Here a float is a fixed-point number:  *)
(* the integer v stands for the value v / Scale of the script, so lengths  *)
(* are held in mm, loads in N and N/m, moments in Nm, stresses in kPa.     *)
(* Every arithmetic operation rounds its exact result to the nearest       *)
(* representable value, as the float operation does, and 0/0 gives NaN,    *)
(* which propagates and compares false as in IEEE arithmetic.              *)
(***************************************************************************)
EXTENDS Integers, Sequences, FiniteSets, TLC

VARIABLES
    L, delta_g, Q_load, steel_grade,  \* sidebar inputs of the current run
    x,                 \* the sample grid
    pc,                \* position of the script run or of the function call
    idx,               \* number of catalog entries the loop has taken
    best_profile,      \* None or the name of the selected profile
    results,           \* the results dict
    util_log,          \* the value of utilization in each iteration so far
    display,           \* what the report section rendered
    evals,             \* load-case evaluator calls made in this run
    M_g, V_g,          \* self-weight moment and shear of the current entry
    M_dg, V_dg,        \* moment and shear of the triangular load
    q_positions, k,    \* sweep positions and how many of them are processed
    max_M, max_V,      \* the running envelopes of the moving load
    remembered,        \* history: inputs and outcome of one earlier run
    fn                 \* a stand-alone call of a mechanics function

vars == << L, delta_g, Q_load, steel_grade, x, pc, idx, best_profile, results,
           util_log, display, evals, M_g, V_g, M_dg, V_dg, q_positions, k,
           max_M, max_V, remembered, fn >>

-----------------------------------------------------------------------------
(* float64 as fixed-point numbers *)

Scale == 1000

NaN == -2147483647

None == "None"

Num(n) == n * Scale

IsNaN(a) == a = NaN

AbsInt(n) == IF n < 0 THEN -n ELSE n

\* n / d rounded to the nearest integer, d > 0
RoundDiv(n, d) == (n + (d \div 2)) \div d

FAdd(a, b) == IF IsNaN(a) \/ IsNaN(b) THEN NaN ELSE a + b

FSub(a, b) == IF IsNaN(a) \/ IsNaN(b) THEN NaN ELSE a - b

\* a * b: the larger operand is split so that no intermediate product
\* leaves the integer range
FMul(a, b) ==
    IF IsNaN(a) \/ IsNaN(b) THEN NaN
    ELSE LET big   == IF AbsInt(a) >= AbsInt(b) THEN a ELSE b
             small == IF AbsInt(a) >= AbsInt(b) THEN b ELSE a
             hi    == big \div Scale
             lo    == big % Scale
         IN  hi * small + RoundDiv(lo * small, Scale)

\* the digits of r / d after the point, s being the weight still to produce
RECURSIVE LongDiv(_, _, _)
LongDiv(r, d, s) ==
    IF s = 1 THEN (IF 2 * r >= d THEN 1 ELSE 0)
    ELSE LET t == r * 10
         IN  (t \div d) * (s \div 10) + LongDiv(t % d, d, s \div 10)

\* a / b; 0 / 0 is NaN (numpy warns and goes on)
FDiv(a, b) ==
    IF IsNaN(a) \/ IsNaN(b) THEN NaN
    ELSE IF b = 0 /\ a = 0 THEN NaN
    ELSE LET n == IF b < 0 THEN -a ELSE a
             d == AbsInt(b)
         IN  (n \div d) * Scale + LongDiv(n % d, d, Scale)

\* np.abs
FAbs(a) == IF IsNaN(a) THEN NaN ELSE AbsInt(a)

\* np.maximum on two elements: NaN wins
FMaximum(a, b) ==
    IF IsNaN(a) \/ IsNaN(b) THEN NaN ELSE IF a >= b THEN a ELSE b

\* a <= b on floats: false when either is NaN
FLe(a, b) == ~IsNaN(a) /\ ~IsNaN(b) /\ a <= b

FGt(a, b) == ~IsNaN(a) /\ ~IsNaN(b) /\ a > b

\* int(v): truncation toward zero, as a plain integer
IntTrunc(v) == IF v >= 0 THEN v \div Scale ELSE -((-v) \div Scale)

\* np.max of arr[lo..hi]: NaN when any element is NaN
RECURSIVE MaxRange(_, _, _)
MaxRange(arr, lo, hi) ==
    IF lo = hi THEN arr[lo]
    ELSE LET mid == (lo + hi) \div 2
         IN  FMaximum(MaxRange(arr, lo, mid), MaxRange(arr, mid + 1, hi))

\* np.max of a non-empty array
NpMax(arr) == MaxRange(arr, 1, Len(arr))

\* np.linspace(0, stop, num) for num >= 0; the last sample is stop itself
Linspace(stop, num) ==
    [i \in 1..num |->
        IF num = 1 THEN 0
        ELSE IF i = num THEN stop
        ELSE RoundDiv((i - 1) * stop, num - 1)]

-----------------------------------------------------------------------------
(* 1. KONFIGURATION & DATEN *)

\* the catalog with its first two entries in the wrong order
IPE_DATA_Unordered == <<
    [name |-> "IPE 100", mass |->   8100, Wy |->   34200],
    [name |-> "IPE 80",  mass |->   6000, Wy |->   20000],
    [name |-> "IPE 120", mass |->  10400, Wy |->   53000],
    [name |-> "IPE 140", mass |->  12900, Wy |->   77300],
    [name |-> "IPE 160", mass |->  15800, Wy |->  109000],
    [name |-> "IPE 180", mass |->  18800, Wy |->  146000],
    [name |-> "IPE 200", mass |->  22400, Wy |->  194000],
    [name |-> "IPE 220", mass |->  26200, Wy |->  252000],
    [name |-> "IPE 240", mass |->  30700, Wy |->  324000],
    [name |-> "IPE 270", mass |->  36100, Wy |->  429000],
    [name |-> "IPE 300", mass |->  42200, Wy |->  557000],
    [name |-> "IPE 330", mass |->  49100, Wy |->  713000],
    [name |-> "IPE 360", mass |->  57100, Wy |->  904000],
    [name |-> "IPE 400", mass |->  66300, Wy |-> 1160000],
    [name |-> "IPE 450", mass |->  77600, Wy |-> 1500000],
    [name |-> "IPE 500", mass |->  90700, Wy |-> 1930000],
    [name |-> "IPE 550", mass |-> 106000, Wy |-> 2440000],
    [name |-> "IPE 600", mass |-> 122000, Wy |-> 3070000] >>

\* IPE_DATA in insertion order; mass in kg/m and Wy in cm^3, both times Scale
IPE_DATA == <<
    [name |-> "IPE 80",  mass |->   6000, Wy |->   20000],
    [name |-> "IPE 100", mass |->   8100, Wy |->   34200],
    [name |-> "IPE 120", mass |->  10400, Wy |->   53000],
    [name |-> "IPE 140", mass |->  12900, Wy |->   77300],
    [name |-> "IPE 160", mass |->  15800, Wy |->  109000],
    [name |-> "IPE 180", mass |->  18800, Wy |->  146000],
    [name |-> "IPE 200", mass |->  22400, Wy |->  194000],
    [name |-> "IPE 220", mass |->  26200, Wy |->  252000],
    [name |-> "IPE 240", mass |->  30700, Wy |->  324000],
    [name |-> "IPE 270", mass |->  36100, Wy |->  429000],
    [name |-> "IPE 300", mass |->  42200, Wy |->  557000],
    [name |-> "IPE 330", mass |->  49100, Wy |->  713000],
    [name |-> "IPE 360", mass |->  57100, Wy |->  904000],
    [name |-> "IPE 400", mass |->  66300, Wy |-> 1160000],
    [name |-> "IPE 450", mass |->  77600, Wy |-> 1500000],
    [name |-> "IPE 500", mass |->  90700, Wy |-> 1930000],
    [name |-> "IPE 550", mass |-> 106000, Wy |-> 2440000],
    [name |-> "IPE 600", mass |-> 122000, Wy |-> 3070000] >>

\* yield strength in MPa, times Scale
STEEL_GRADES == [S235 |-> 235000, S355 |-> 355000]

\* gamma_G = 1.35 and gamma_Q = 1.5, times Scale
gamma_G == 1350

gamma_Q == 1500

\* number of samples of x = np.linspace(0, L, 200)
NumSamples == 200

-----------------------------------------------------------------------------
(* 2. MECHANIK FUNKTIONEN *)

\* the uniform-load function with the load left out of the reaction
calculate_distributed_no_q(L_, q, x_vals) ==
    LET Ra == FDiv(L_, Num(2))
    IN  [M |-> [i \in DOMAIN x_vals |->
                  FMul(FDiv(FMul(q, x_vals[i]), Num(2)), FSub(L_, x_vals[i]))],
         V |-> [i \in DOMAIN x_vals |-> FSub(Ra, FMul(q, x_vals[i]))]]

\* M and V of a uniform load q
calculate_distributed_moment_shear(L_, q, x_vals) ==
    LET Ra == FDiv(FMul(q, L_), Num(2))
    IN  [M |-> [i \in DOMAIN x_vals |->
                  FMul(FDiv(FMul(q, x_vals[i]), Num(2)), FSub(L_, x_vals[i]))],
         V |-> [i \in DOMAIN x_vals |-> FSub(Ra, FMul(q, x_vals[i]))]]

\* the triangular-load function dividing by the sample position instead of
\* the span
calculate_triangular_div_x(L_, q_max, x_vals) ==
    LET Ra == FDiv(FMul(q_max, L_), Num(6))
    IN  [M |-> [i \in DOMAIN x_vals |->
                  FSub(FMul(Ra, x_vals[i]),
                       FDiv(FMul(q_max, FMul(FMul(x_vals[i], x_vals[i]), x_vals[i])),
                            FMul(Num(6), x_vals[i])))],
         V |-> [i \in DOMAIN x_vals |->
                  FSub(Ra, FDiv(FMul(q_max, FMul(x_vals[i], x_vals[i])),
                                FMul(Num(2), x_vals[i])))]]

\* the triangular-load function with the reaction of the other support
calculate_triangular_other_support(L_, q_max, x_vals) ==
    LET Ra == FDiv(FMul(q_max, L_), Num(3))
    IN  [M |-> [i \in DOMAIN x_vals |->
                  FSub(FMul(Ra, x_vals[i]),
                       FDiv(FMul(q_max, FMul(FMul(x_vals[i], x_vals[i]), x_vals[i])),
                            FMul(Num(6), L_)))],
         V |-> [i \in DOMAIN x_vals |->
                  FSub(Ra, FDiv(FMul(q_max, FMul(x_vals[i], x_vals[i])),
                                FMul(Num(2), L_)))]]

\* M and V of a triangular load rising from 0 to q_max
calculate_triangular_moment_shear(L_, q_max, x_vals) ==
    LET Ra == FDiv(FMul(q_max, L_), Num(6))
    IN  [M |-> [i \in DOMAIN x_vals |->
                  FSub(FMul(Ra, x_vals[i]),
                       FDiv(FMul(q_max, FMul(FMul(x_vals[i], x_vals[i]), x_vals[i])),
                            FMul(Num(6), L_)))],
         V |-> [i \in DOMAIN x_vals |->
                  FSub(Ra, FDiv(FMul(q_max, FMul(x_vals[i], x_vals[i])),
                                FMul(Num(2), L_)))]]

\* number of sweep positions: int(L*10) + 1
SweepCount(L_) == IntTrunc(FMul(L_, Num(10))) + 1

\* the loop body keeping the last position's values instead of the maximum
SweepStepOverwrite(L_, Q, x_vals, a, mM, mV) ==
    LET Ra == FDiv(FMul(Q, FSub(L_, a)), L_)
    IN  [max_M |-> [i \in DOMAIN x_vals |->
                      LET xi == x_vals[i]
                          M_temp == IF xi <= a THEN FMul(Ra, xi)
                                    ELSE FSub(FMul(Ra, xi), FMul(Q, FSub(xi, a)))
                      IN  FAbs(M_temp)],
         max_V |-> [i \in DOMAIN x_vals |->
                      LET V_temp == IF x_vals[i] <= a THEN Ra ELSE FSub(Ra, Q)
                      IN  FAbs(V_temp)]]

\* the body of "for a in q_positions": the envelopes after position a
SweepStep(L_, Q, x_vals, a, mM, mV) ==
    LET Ra == FDiv(FMul(Q, FSub(L_, a)), L_)
    IN  [max_M |-> [i \in DOMAIN x_vals |->
                      LET xi == x_vals[i]
                          M_temp == IF xi <= a THEN FMul(Ra, xi)
                                    ELSE FSub(FMul(Ra, xi), FMul(Q, FSub(xi, a)))
                      IN  FMaximum(mM[i], FAbs(M_temp))],
         max_V |-> [i \in DOMAIN x_vals |->
                      LET V_temp == IF x_vals[i] <= a THEN Ra ELSE FSub(Ra, Q)
                      IN  FMaximum(mV[i], FAbs(V_temp))]]

\* np.zeros_like(x_vals)
ZerosLike(x_vals) == [i \in DOMAIN x_vals |-> 0]

-----------------------------------------------------------------------------
(* 3. UI LAYOUT: the sidebar inputs *)

\* the widgets' default values
DefaultInputs == [L |-> 5860, delta_g |-> 16000, Q_load |-> 19000, grade |-> "S235"]

\* values the user enters: number_input sets no minimum, so a span or a
\* load may be zero or negative
Spans == {-1000, -150, 0, 150, 1000}

TriLoads == {-16000, 0, 16000}

MovingLoads == {-19000, 0, 19000, 3000000}

Grades == DOMAIN STEEL_GRADES

UserInputs ==
    [L : Spans, delta_g : TriLoads, Q_load : MovingLoads, grade : Grades]
        \cup {DefaultInputs}

Inputs == [L |-> L, delta_g |-> delta_g, Q_load |-> Q_load, grade |-> steel_grade]

fy == STEEL_GRADES[steel_grade]

NoResults == [empty |-> TRUE]

NoDisplay == [kind |-> "none"]

NoCall == [call |-> "none"]

\* the top of the script without lines 105-106: best_profile and results
\* keep what the run before left in them
ScriptTopNoReset(in) ==
    /\ L' = in.L
    /\ delta_g' = in.delta_g
    /\ Q_load' = in.Q_load
    /\ steel_grade' = in.grade
    /\ x' = Linspace(in.L, NumSamples)
    /\ UNCHANGED << best_profile, results >>
    /\ idx' = 0
    /\ util_log' = << >>
    /\ evals' = 0
    /\ display' = NoDisplay
    /\ M_g' = << >> /\ V_g' = << >> /\ M_dg' = << >> /\ V_dg' = << >>
    /\ q_positions' = << >> /\ k' = 0 /\ max_M' = << >> /\ max_V' = << >>
    /\ pc' = "loop"

\* lines 86-106: the inputs are read, the grid is built and best_profile and
\* results are reset; the names of the loop body are not bound yet
ScriptTop(in) ==
    /\ L' = in.L
    /\ delta_g' = in.delta_g
    /\ Q_load' = in.Q_load
    /\ steel_grade' = in.grade
    /\ x' = Linspace(in.L, NumSamples)
    /\ best_profile' = None
    /\ results' = NoResults
    /\ idx' = 0
    /\ util_log' = << >>
    /\ evals' = 0
    /\ display' = NoDisplay
    /\ M_g' = << >> /\ V_g' = << >> /\ M_dg' = << >> /\ V_dg' = << >>
    /\ q_positions' = << >> /\ k' = 0 /\ max_M' = << >> /\ max_V' = << >>
    /\ pc' = "loop"

-----------------------------------------------------------------------------
(* 4. BERECHNUNG & AUTO-DESIGN *)

\* lines 54-57: calculate_moving_load_envelope is entered; a negative
\* number of positions makes np.linspace raise ValueError
EnterEnvelope(sweep_pc, raised_pc) ==
    /\ max_M' = ZerosLike(x)
    /\ max_V' = ZerosLike(x)
    /\ k' = 0
    /\ IF SweepCount(L) < 0
       THEN /\ q_positions' = << >>
            /\ pc' = raised_pc
       ELSE /\ q_positions' = Linspace(L, SweepCount(L))
            /\ pc' = sweep_pc

\* lines 108-114 up to the sweep: the next entry is taken, the two closed
\* forms are evaluated and the envelope function is called
BeginCandidate ==
    /\ pc = "loop"
    /\ idx < Len(IPE_DATA)
    /\ LET props == IPE_DATA[idx + 1]
           g_k   == FDiv(FMul(props.mass, 9810), Num(1000))
           g     == calculate_distributed_moment_shear(L, g_k, x)
           tri   == calculate_triangular_moment_shear(L, delta_g, x)
       IN  /\ M_g' = g.M /\ V_g' = g.V
           /\ M_dg' = tri.M /\ V_dg' = tri.V
    /\ idx' = idx + 1
    /\ evals' = evals + 3
    /\ EnterEnvelope("sweep", "crashed")
    /\ UNCHANGED << L, delta_g, Q_load, steel_grade, x, best_profile, results,
                    util_log, display, remembered, fn >>

\* lines 59-75: one position of the sweep, for the search or for a
\* stand-alone call
Sweep ==
    /\ pc \in {"sweep", "fn_sweep"}
    /\ k < Len(q_positions)
    /\ LET env == SweepStep(L, Q_load, x, q_positions[k + 1], max_M, max_V)
       IN  /\ max_M' = env.max_M
           /\ max_V' = env.max_V
    /\ k' = k + 1
    /\ UNCHANGED << L, delta_g, Q_load, steel_grade, x, pc, idx, best_profile,
                    results, util_log, display, evals, M_g, V_g, M_dg, V_dg,
                    q_positions, remembered, fn >>

\* lines 116-126: superposition and the stress check of one entry
Superpose(props) ==
    LET M_Q == max_M
        V_Q == max_V
        M_Ed_array == [i \in DOMAIN x |->
            FAdd(FMul(gamma_G, FAdd(M_g[i], M_dg[i])), FMul(gamma_Q, M_Q[i]))]
        V_Ed_array == [i \in DOMAIN x |->
            FAdd(FMul(gamma_G, FAdd(FAbs(V_g[i]), FAbs(V_dg[i]))),
                 FMul(gamma_Q, V_Q[i]))]
        max_M_Ed == NpMax(M_Ed_array)
        max_V_Ed == NpMax(V_Ed_array)
        sigma_Ed == FMul(FDiv(max_M_Ed, props.Wy), Num(1000))
        sigma_Rd == fy
        utilization == FDiv(sigma_Ed, sigma_Rd)
    IN  [M_Ed |-> max_M_Ed, V_Ed |-> max_V_Ed, Sigma |-> sigma_Ed,
         Util |-> utilization, M_array |-> M_Ed_array, V_array |-> V_Ed_array]

\* lines 130-138: the results dict of an accepted entry
ResultsOf(s) ==
    [empty |-> FALSE, M_Ed |-> s.M_Ed, V_Ed |-> s.V_Ed, Sigma |-> s.Sigma,
     Util |-> s.Util, x |-> x, M_array |-> s.M_array, V_array |-> s.V_array]

CheckUnchanged ==
    UNCHANGED << L, delta_g, Q_load, steel_grade, x, idx, display, evals,
                 M_g, V_g, M_dg, V_dg, q_positions, k, max_M, max_V,
                 remembered, fn >>

\* the check without the break of line 139: the loop goes on after an
\* accepted entry
CheckNoBreak ==
    /\ pc = "sweep"
    /\ k = Len(q_positions)
    /\ LET s == Superpose(IPE_DATA[idx])
       IN  /\ util_log' = Append(util_log, s.Util)
           /\ IF FLe(s.Util, Num(1))
              THEN /\ best_profile' = IPE_DATA[idx].name
                   /\ results' = ResultsOf(s)
              ELSE UNCHANGED << best_profile, results >>
    /\ pc' = "loop"
    /\ CheckUnchanged

\* the check falling back to the last entry when none passed
CheckFallback ==
    /\ pc = "sweep"
    /\ k = Len(q_positions)
    /\ LET s == Superpose(IPE_DATA[idx])
       IN  /\ util_log' = Append(util_log, s.Util)
           /\ IF FLe(s.Util, Num(1)) \/ idx = Len(IPE_DATA)
              THEN /\ best_profile' = IPE_DATA[idx].name
                   /\ results' = ResultsOf(s)
                   /\ pc' = "report"
              ELSE /\ UNCHANGED << best_profile, results >>
                   /\ pc' = "loop"
    /\ CheckUnchanged

\* lines 77 and 116-139: the envelope is returned, the design values are
\* superposed and the entry is accepted (break) or the loop goes on
Check ==
    /\ pc = "sweep"
    /\ k = Len(q_positions)
    /\ LET s == Superpose(IPE_DATA[idx])
       IN  /\ util_log' = Append(util_log, s.Util)
           /\ IF FLe(s.Util, Num(1))
              THEN /\ best_profile' = IPE_DATA[idx].name
                   /\ results' = ResultsOf(s)
                   /\ pc' = "report"
              ELSE /\ UNCHANGED << best_profile, results >>
                   /\ pc' = "loop"
    /\ CheckUnchanged

\* line 108 with the catalog used up: the loop ends without a break
Exhausted ==
    /\ pc = "loop"
    /\ idx = Len(IPE_DATA)
    /\ pc' = "report"
    /\ UNCHANGED << L, delta_g, Q_load, steel_grade, x, idx, best_profile,
                    results, util_log, display, evals, M_g, V_g, M_dg, V_dg,
                    q_positions, k, max_M, max_V, remembered, fn >>

-----------------------------------------------------------------------------
(* 5. BERICHT & PLOTTING *)

\* lines 143-201: the metrics and the two traces, or st.error
Report ==
    /\ pc = "report"
    /\ display' = IF best_profile # None
                  THEN [kind |-> "success", profile |-> best_profile,
                        M_Ed |-> results.M_Ed, Util |-> results.Util,
                        Sigma |-> results.Sigma, trace_x |-> results.x,
                        trace_M |-> results.M_array, trace_V |-> results.V_array]
                  ELSE [kind |-> "error"]
    /\ pc' = "done"
    /\ UNCHANGED << L, delta_g, Q_load, steel_grade, x, idx, best_profile,
                    results, util_log, evals, M_g, V_g, M_dg, V_dg,
                    q_positions, k, max_M, max_V, remembered, fn >>

\* the user changes a widget and Streamlit runs the script again from the top
Rerun ==
    /\ pc \in {"done", "crashed"}
    /\ \E in \in UserInputs : ScriptTop(in)
    /\ UNCHANGED << remembered, fn >>

Init ==
    /\ L = DefaultInputs.L
    /\ delta_g = DefaultInputs.delta_g
    /\ Q_load = DefaultInputs.Q_load
    /\ steel_grade = DefaultInputs.grade
    /\ x = Linspace(DefaultInputs.L, NumSamples)
    /\ best_profile = None
    /\ results = NoResults
    /\ idx = 0
    /\ util_log = << >>
    /\ evals = 0
    /\ display = NoDisplay
    /\ M_g = << >> /\ V_g = << >> /\ M_dg = << >> /\ V_dg = << >>
    /\ q_positions = << >> /\ k = 0 /\ max_M = << >> /\ max_V = << >>
    /\ pc = "loop"
    /\ remembered = [known |-> FALSE]
    /\ fn = NoCall

Next == BeginCandidate \/ Sweep \/ Check \/ Exhausted \/ Report \/ Rerun

Spec == Init /\ [][Next]_vars

-----------------------------------------------------------------------------
(* Runs compared with one another: the history variable keeps the inputs   *)
(* and the outcome of one earlier run, chosen freely.                      *)

Outcome ==
    [pc |-> pc, best_profile |-> best_profile, results |-> results,
     display |-> display]

DetInputs ==
    { DefaultInputs,
      [L |-> 1000, delta_g |-> 0, Q_load |-> 0, grade |-> "S235"],
      [L |-> 1000, delta_g |-> 16000, Q_load |-> 3000000, grade |-> "S355"],
      [L |-> 150, delta_g |-> -16000, Q_load |-> 19000, grade |-> "S235"],
      [L |-> 0, delta_g |-> 16000, Q_load |-> 19000, grade |-> "S235"],
      [L |-> -1000, delta_g |-> 16000, Q_load |-> 19000, grade |-> "S235"] }

RerunDet ==
    /\ pc \in {"done", "crashed"}
    /\ \E in \in DetInputs : ScriptTop(in)
    /\ remembered' \in
         { remembered, [known |-> TRUE, inputs |-> Inputs, outcome |-> Outcome] }
    /\ UNCHANGED fn

NextDet == BeginCandidate \/ Sweep \/ Check \/ Exhausted \/ Report \/ RerunDet

SpecDet == Init /\ [][NextDet]_vars

-----------------------------------------------------------------------------
(* The mechanics functions called on their own, on inputs of the data      *)
(* model: a span, a load and a sample grid np.linspace(0, L, n).           *)

MaxSpanSteps == 8

MaxGrid == 5

FnSpans == {50 * n : n \in 1..MaxSpanSteps} \cup {1000, 5860}

FnLoads == {0, 1000, 19000}

FnGrids == (1..MaxGrid) \cup {NumSamples}

InitFn ==
    /\ L \in FnSpans
    /\ \E load \in FnLoads :
         /\ delta_g = load
         /\ Q_load = load
         /\ fn = [call |-> "none", q |-> load]
    /\ \E n \in FnGrids : x = Linspace(L, n)
    /\ steel_grade = "S235"
    /\ best_profile = None
    /\ results = NoResults
    /\ idx = 0
    /\ util_log = << >>
    /\ evals = 0
    /\ display = NoDisplay
    /\ M_g = << >> /\ V_g = << >> /\ M_dg = << >> /\ V_dg = << >>
    /\ q_positions = << >> /\ k = 0 /\ max_M = << >> /\ max_V = << >>
    /\ pc = "fn_idle"
    /\ remembered = [known |-> FALSE]

FnUnchanged ==
    UNCHANGED << L, delta_g, Q_load, steel_grade, x, idx, best_profile, results,
                 util_log, display, evals, M_g, V_g, M_dg, V_dg, remembered >>

\* calculate_distributed_moment_shear(L, q, x)
FnDistributed ==
    /\ pc = "fn_idle"
    /\ LET r == calculate_distributed_moment_shear(L, fn.q, x)
       IN  fn' = [call |-> "distributed", q |-> fn.q, M |-> r.M, V |-> r.V]
    /\ pc' = "fn_done"
    /\ UNCHANGED << q_positions, k, max_M, max_V >>
    /\ FnUnchanged

\* calculate_triangular_moment_shear(L, q_max, x)
FnTriangular ==
    /\ pc = "fn_idle"
    /\ LET r == calculate_triangular_moment_shear(L, fn.q, x)
       IN  fn' = [call |-> "triangular", q |-> fn.q, M |-> r.M, V |-> r.V]
    /\ pc' = "fn_done"
    /\ UNCHANGED << q_positions, k, max_M, max_V >>
    /\ FnUnchanged

\* calculate_moving_load_envelope(L, Q, x) is entered
FnEnvelopeBegin ==
    /\ pc = "fn_idle"
    /\ EnterEnvelope("fn_sweep", "fn_raised")
    /\ UNCHANGED fn
    /\ FnUnchanged

\* line 77: return max_M, max_V
FnEnvelopeReturn ==
    /\ pc = "fn_sweep"
    /\ k = Len(q_positions)
    /\ fn' = [call |-> "envelope", q |-> fn.q, M |-> max_M, V |-> max_V]
    /\ pc' = "fn_done"
    /\ UNCHANGED << q_positions, k, max_M, max_V >>
    /\ FnUnchanged

NextFn ==
    FnDistributed \/ FnTriangular \/ FnEnvelopeBegin \/ Sweep \/ FnEnvelopeReturn

SpecFn == InitFn /\ [][NextFn]_vars

-----------------------------------------------------------------------------
(* Properties *)

\* the data model's ranges: L > 0, delta_g >= 0, Q >= 0
ValidInput == L > 0 /\ delta_g >= 0 /\ Q_load >= 0

\* the catalog position of a profile name
IndexOf(name) == CHOOSE j \in 1..Len(IPE_DATA) : IPE_DATA[j].name = name

\* every utilization computed in this run failed the check
NoCandidateFound == \A j \in DOMAIN util_log : ~FLe(util_log[j], Num(1))

\* the rounding a result may carry for a span L_ and a load q
RoundingTol(L_, q) == 2 + (AbsInt(L_) + AbsInt(q)) \div Scale

Near(a, b, tol) == ~IsNaN(a) /\ ~IsNaN(b) /\ AbsInt(a - b) <= tol

\* C1: whenever a profile is selected it is the entry the loop took last,
\* its utilization is <= 1.0, every entry before it was computed to be
\* > 1.0, and the loop has stopped: no later entry is evaluated.
C1_FirstFeasibleSelected ==
    best_profile # None =>
        /\ idx >= 1
        /\ best_profile = IPE_DATA[idx].name
        /\ Len(util_log) = idx
        /\ evals = 3 * idx
        /\ FLe(util_log[idx], Num(1))
        /\ \A j \in 1..(idx - 1) : FGt(util_log[j], Num(1))
        /\ pc \in {"report", "done"}
        /\ ~results.empty /\ results.Util = util_log[idx]

C1_Witness ==
    /\ pc = "done" /\ best_profile # None /\ idx >= 3
    /\ \A j \in 1..(idx - 1) : FGt(util_log[j], Num(1))

\* C2: when the catalog is empty or every entry was computed to be > 1.0,
\* the search ends without a profile: best_profile is None, results is
\* empty, the report takes the st.error branch, and the run did not crash.
C2_NoCandidateOutcome ==
    (/\ pc \in {"report", "done", "crashed"}
     /\ \/ Len(IPE_DATA) = 0
        \/ /\ Len(util_log) = Len(IPE_DATA)
           /\ \A j \in DOMAIN util_log : FGt(util_log[j], Num(1)))
    => /\ pc # "crashed"
       /\ best_profile = None
       /\ results = NoResults
       /\ pc = "done" => display = [kind |-> "error"]

C2_Witness ==
    /\ pc = "done" /\ ValidInput
    /\ Len(util_log) = Len(IPE_DATA)
    /\ \A j \in DOMAIN util_log : FGt(util_log[j], Num(1))
    /\ display = [kind |-> "error"]

\* C3: for an invalid input (L <= 0, delta_g < 0 or Q < 0) no load-case
\* evaluator is run, no profile is selected and no result is produced.
C3_InvalidInputRejected ==
    ~ValidInput =>
        /\ evals = 0
        /\ best_profile = None
        /\ results = NoResults
        /\ display.kind # "success"

\* C4: for a valid input, every catalog entry lighter than the selected
\* profile was evaluated and computed to be > 1.0, so no entry that passes
\* the check has a smaller mass than the selected one.
C4_LightestFeasible ==
    (ValidInput /\ best_profile # None) =>
        \A j \in 1..Len(IPE_DATA) :
            IPE_DATA[j].mass < IPE_DATA[IndexOf(best_profile)].mass
                => j <= Len(util_log) /\ FGt(util_log[j], Num(1))

C4_Witness ==
    /\ pc = "done" /\ ValidInput /\ best_profile = "IPE 270"
    /\ \A j \in 1..9 : FGt(util_log[j], Num(1))

\* C5: for L > 0 and Q >= 0, on the 200-sample grid, the maximum of the
\* returned moment envelope equals Q*L/4 up to the moment of Q over a
\* quarter of the nominal sweep spacing of 1/10 m (and the rounding).
C5_EnvelopePeak ==
    (/\ pc = "fn_done" /\ fn.call = "envelope"
     /\ Len(x) = NumSamples /\ L > 0 /\ fn.q >= 0)
    => Near(NpMax(fn.M), FDiv(FMul(fn.q, L), Num(4)),
            FDiv(FMul(fn.q, FDiv(Num(1), Num(10))), Num(4))
              + RoundingTol(L, fn.q))

\* C6: with a zero load, each of the three functions returns moment and
\* shear that are 0 (not NaN) at every sample, for every span and grid.
C6_ZeroLoadZeroForces ==
    (pc = "fn_done" /\ fn.q = 0) =>
        /\ DOMAIN fn.M = DOMAIN x /\ DOMAIN fn.V = DOMAIN x
        /\ \A i \in DOMAIN x : fn.M[i] = 0 /\ fn.V[i] = 0

C6_Witness ==
    /\ pc = "fn_done" /\ fn.q = 0 /\ fn.call = "envelope"
    /\ Len(x) = NumSamples /\ Len(q_positions) >= 3

\* C7: the outcome of a finished run is the outcome every earlier run with
\* the same inputs had, whatever ran in between; and a run in which no
\* entry passed the check ends with best_profile None, results empty and
\* the st.error display, never with the content of an earlier run.
C7_RunsIndependent ==
    /\ (/\ pc \in {"done", "crashed"}
        /\ remembered.known
        /\ remembered.inputs = Inputs)
       => remembered.outcome = Outcome
    /\ (pc = "done" /\ NoCandidateFound)
       => /\ best_profile = None
          /\ results = NoResults
          /\ display = [kind |-> "error"]

C7_Witness ==
    /\ pc = "done"
    /\ remembered.known /\ remembered.inputs = Inputs
    /\ best_profile # None

\* C8: the uniform-load moment is exactly 0 at x = 0 and at x = L, is
\* nowhere above q*L^2/8 and equals it at x = L/2; the triangular-load
\* shear at x = 0 is q_max*L/6 and its moment is 0 at x = 0 and at x = L
\* (all but the exact zeros up to rounding).
C8_BoundaryConditions ==
    /\ (pc = "fn_done" /\ fn.call = "distributed") =>
         LET peak == FDiv(FMul(fn.q, FMul(L, L)), Num(8))
         IN  \A i \in DOMAIN x :
               /\ x[i] = 0 => fn.M[i] = 0
               /\ x[i] = L => fn.M[i] = 0
               /\ fn.M[i] <= peak + RoundingTol(L, fn.q)
               /\ 2 * x[i] = L => Near(fn.M[i], peak, RoundingTol(L, fn.q))
    /\ (pc = "fn_done" /\ fn.call = "triangular") =>
         \A i \in DOMAIN x :
           /\ x[i] = 0 => /\ Near(fn.V[i], RoundDiv(fn.q * L, 6 * Scale), 1)
                          /\ fn.M[i] = 0
           /\ x[i] = L => Near(fn.M[i], 0, RoundingTol(L, fn.q))

C8_Witness ==
    /\ pc = "fn_done" /\ fn.call = "distributed" /\ fn.q > 0
    /\ \E i \in DOMAIN x : 2 * x[i] = L /\ fn.M[i] > 0
    /\ x[Len(x)] = L

\* C9: for a valid input every utilization the search computes is a
\* number (not NaN) and is >= 0, and so is the one of the accepted entry.
C9_UtilizationNonNegative ==
    ValidInput =>
        /\ \A j \in DOMAIN util_log : ~IsNaN(util_log[j]) /\ util_log[j] >= 0
        /\ ~results.empty => ~IsNaN(results.Util) /\ results.Util >= 0

C9_Witness ==
    /\ ValidInput /\ pc = "done" /\ best_profile # None
    /\ delta_g > 0 /\ Q_load > 0 /\ Len(util_log) >= 2

\* |M| and |V| at sample xi for the load standing at a, as C10 states them
MAt(L_, Q, a, xi) ==
    LET Ra == FDiv(FMul(Q, FSub(L_, a)), L_)
    IN  FAbs(IF xi <= a THEN FMul(Ra, xi)
             ELSE FSub(FMul(Ra, xi), FMul(Q, FSub(xi, a))))

VAt(L_, Q, a, xi) ==
    LET Ra == FDiv(FMul(Q, FSub(L_, a)), L_)
    IN  FAbs(IF xi <= a THEN Ra ELSE FSub(Ra, Q))

\* m is the maximum of 0 and the values of S
IsMaxWithZero(m, S) == (m = 0 \/ m \in S) /\ m >= 0 /\ \A s \in S : s <= m

\* C10: after any prefix of the sweep, max_M[i] and max_V[i] are, sample
\* by sample, the maximum of |M_a(x_i)| and |V_a(x_i)| over the positions
\* a processed so far (0 before the first), hence >= 0 and never smaller
\* than after a shorter prefix.
C10_RunningEnvelope ==
    pc = "fn_sweep" =>
        /\ DOMAIN max_M = DOMAIN x /\ DOMAIN max_V = DOMAIN x
        /\ \A i \in DOMAIN x :
             /\ IsMaxWithZero(max_M[i],
                    {MAt(L, Q_load, q_positions[j], x[i]) : j \in 1..k})
             /\ IsMaxWithZero(max_V[i],
                    {VAt(L, Q_load, q_positions[j], x[i]) : j \in 1..k})

C10_Witness ==
    /\ pc = "fn_sweep" /\ k >= 3 /\ k = Len(q_positions) /\ Q_load > 0
    /\ \E i \in DOMAIN x : max_M[i] > 0 /\ max_V[i] > max_M[i]
    /\ \E i \in DOMAIN x :
         max_M[i] > MAt(L, Q_load, q_positions[k], x[i])

=============================================================================
